---- MODULE Spec2Model ----
(***************************************************************************)
(* Verification model of cursor-auto-register:                             *)
(*   database.py          get_session, init_db, create_engine              *)
(*   reset_machine.py     MachineIDResetter.reset_machine_ids              *)
(*   tokenManager/cursor.py  Cursor.get_remaining_balance                  *)
(*                                                                         *)
(* Exceptions are instances of Python's Exception class, the class every   *)
(* handler of the three files names.  Logging and printing do not fail.    *)
(***************************************************************************)
EXTENDS Integers, Sequences, FiniteSets, TLC

VARIABLES
    tasks,      \* database.py: one record per coroutine calling get_session / init_db
    file,       \* reset_machine.py: the configuration file at self.db_path
    reset,      \* reset_machine.py: the run of reset_machine_ids
    ext,        \* the host application writing the same file
    response,   \* cursor.py: the JSON body of the usage endpoint
    balance     \* cursor.py: the call of get_remaining_balance

vars == <<tasks, file, reset, ext, response, balance>>

(***************************************************************************)
(* Bounds                                                                  *)
(***************************************************************************)
\* coroutines that use the database concurrently
NumTasks == 2

Tasks == 1..NumTasks

(***************************************************************************)
(* database.py                                                             *)
(***************************************************************************)
NoExc == "NoExc"

\* what each awaited call raises when it fails
EngineError   == "EngineError"
SelectError   == "SelectError"
BodyError     == "BodyError"
RollbackError == "RollbackError"
CloseError    == "CloseError"
DisposeError  == "DisposeError"
BeginError    == "BeginError"
CreateAllError == "CreateAllError"

\* a coroutine that has not called anything yet
IdleTask ==
    [op |-> "none", pc |-> "idle", engine |-> FALSE, session |-> FALSE,
     yielded |-> FALSE, exc |-> NoExc,
     rollbackCalls |-> 0, closeCalls |-> 0, disposeCalls |-> 0,
     failed |-> {}, log |-> <<>>, outcome |-> "pending"]

\* logger.error / logger.info: append one record to the task's log
Logged(t, kind, e) == Append(tasks[t].log, <<kind, e>>)

\* create_engine() and the session factory, lines 105-110: a failure here is
\* before the try statement and reaches the caller as it is
CallGetSession(t) ==
    /\ tasks[t].pc = "idle"
    /\ \/ tasks' = [tasks EXCEPT ![t] =
                      [@ EXCEPT !.op = "get_session", !.pc = "select",
                                !.engine = TRUE, !.session = TRUE]]
       \/ tasks' = [tasks EXCEPT ![t] =
                      [@ EXCEPT !.op = "get_session", !.pc = "done",
                                !.outcome = EngineError]]
    /\ UNCHANGED <<file, reset, ext, response, balance>>

\* await session.execute(text("SELECT 1")), line 113, then the yield of line 114
SelectOne(t) ==
    /\ tasks[t].op = "get_session"
    /\ tasks[t].pc = "select"
    /\ \/ tasks' = [tasks EXCEPT ![t] =
                      [@ EXCEPT !.pc = "body", !.yielded = TRUE]]
       \/ tasks' = [tasks EXCEPT ![t] =
                      [@ EXCEPT !.pc = "except", !.exc = SelectError]]
    /\ UNCHANGED <<file, reset, ext, response, balance>>

\* the caller's `async with` body: it completes and the generator resumes after
\* the yield, or it raises and the exception is thrown in at the yield
Body(t) ==
    /\ tasks[t].op = "get_session"
    /\ tasks[t].pc = "body"
    /\ \/ tasks' = [tasks EXCEPT ![t] = [@ EXCEPT !.pc = "close"]]
       \/ tasks' = [tasks EXCEPT ![t] =
                      [@ EXCEPT !.pc = "except", !.exc = BodyError]]
    /\ UNCHANGED <<file, reset, ext, response, balance>>

\* a plausible slip: the rollback is not guarded, so its failure replaces E
ExceptHandlerUnguarded(t) ==
    /\ tasks[t].op = "get_session"
    /\ tasks[t].pc = "except"
    /\ \/ tasks' = [tasks EXCEPT ![t] =
                      [@ EXCEPT !.pc = "close",
                                !.log = Logged(t, "session_error", tasks[t].exc),
                                !.rollbackCalls = @ + 1]]
       \/ tasks' = [tasks EXCEPT ![t] =
                      [@ EXCEPT !.pc = "close",
                                !.log = Logged(t, "session_error", tasks[t].exc),
                                !.rollbackCalls = @ + 1,
                                !.failed = @ \cup {"rollback"},
                                !.exc = RollbackError]]
    /\ UNCHANGED <<file, reset, ext, response, balance>>

\* except Exception as e, lines 115-122: log, rollback (a failure of it is
\* logged and dropped), bare raise of e; the finally clause runs next
ExceptHandler(t) ==
    /\ tasks[t].op = "get_session"
    /\ tasks[t].pc = "except"
    /\ \/ tasks' = [tasks EXCEPT ![t] =
                      [@ EXCEPT !.pc = "close",
                                !.log = Logged(t, "session_error", tasks[t].exc),
                                !.rollbackCalls = @ + 1]]
       \/ tasks' = [tasks EXCEPT ![t] =
                      [@ EXCEPT !.pc = "close",
                                !.log = Append(Logged(t, "session_error", tasks[t].exc),
                                               <<"rollback_error", RollbackError>>),
                                !.rollbackCalls = @ + 1,
                                !.failed = @ \cup {"rollback"}]]
    /\ UNCHANGED <<file, reset, ext, response, balance>>

\* a plausible slip: close is not guarded, so its failure leaves the finally
\* clause before the engine is disposed
CloseSessionUnguarded(t) ==
    /\ tasks[t].op = "get_session"
    /\ tasks[t].pc = "close"
    /\ \/ tasks' = [tasks EXCEPT ![t] =
                      [@ EXCEPT !.pc = "dispose", !.closeCalls = @ + 1]]
       \/ tasks' = [tasks EXCEPT ![t] =
                      [@ EXCEPT !.pc = "done", !.closeCalls = @ + 1,
                                !.failed = @ \cup {"close"},
                                !.outcome = CloseError]]
    /\ UNCHANGED <<file, reset, ext, response, balance>>

\* finally, lines 125-128: await session.close(), a failure logged and dropped
CloseSession(t) ==
    /\ tasks[t].op = "get_session"
    /\ tasks[t].pc = "close"
    /\ \/ tasks' = [tasks EXCEPT ![t] =
                      [@ EXCEPT !.pc = "dispose", !.closeCalls = @ + 1]]
       \/ tasks' = [tasks EXCEPT ![t] =
                      [@ EXCEPT !.pc = "dispose", !.closeCalls = @ + 1,
                                !.failed = @ \cup {"close"},
                                !.log = Logged(t, "close_error", CloseError)]]
    /\ UNCHANGED <<file, reset, ext, response, balance>>

\* what the caller of get_session sees once the finally clause is over: the
\* exception the except clause re-raised, or a normal exit
Exit(t) == IF tasks[t].exc = NoExc THEN "returned" ELSE tasks[t].exc

\* a plausible slip: dispose is skipped on the error path
DisposeEngineOnSuccessOnly(t) ==
    /\ tasks[t].op = "get_session"
    /\ tasks[t].pc = "dispose"
    /\ \/ /\ tasks[t].exc # NoExc
          /\ tasks' = [tasks EXCEPT ![t] =
                         [@ EXCEPT !.pc = "done", !.outcome = Exit(t)]]
       \/ /\ tasks[t].exc = NoExc
          /\ tasks' = [tasks EXCEPT ![t] =
                         [@ EXCEPT !.pc = "done", !.disposeCalls = @ + 1,
                                   !.outcome = Exit(t)]]
    /\ UNCHANGED <<file, reset, ext, response, balance>>

\* finally, lines 129-132: await engine.dispose(), a failure logged and
\* dropped; then get_session exits
DisposeEngine(t) ==
    /\ tasks[t].op = "get_session"
    /\ tasks[t].pc = "dispose"
    /\ \/ tasks' = [tasks EXCEPT ![t] =
                      [@ EXCEPT !.pc = "done", !.disposeCalls = @ + 1,
                                !.outcome = Exit(t)]]
       \/ tasks' = [tasks EXCEPT ![t] =
                      [@ EXCEPT !.pc = "done", !.disposeCalls = @ + 1,
                                !.failed = @ \cup {"dispose"},
                                !.log = Logged(t, "dispose_error", DisposeError),
                                !.outcome = Exit(t)]]
    /\ UNCHANGED <<file, reset, ext, response, balance>>

\* init_db, line 148: engine = create_engine()
CallInitDb(t) ==
    /\ tasks[t].pc = "idle"
    /\ \/ tasks' = [tasks EXCEPT ![t] =
                      [@ EXCEPT !.op = "init_db", !.pc = "begin", !.engine = TRUE]]
       \/ tasks' = [tasks EXCEPT ![t] =
                      [@ EXCEPT !.op = "init_db", !.pc = "except",
                                !.exc = EngineError]]
    /\ UNCHANGED <<file, reset, ext, response, balance>>

\* init_db, line 150: entering `async with engine.begin() as conn`
Begin(t) ==
    /\ tasks[t].op = "init_db"
    /\ tasks[t].pc = "begin"
    /\ \/ tasks' = [tasks EXCEPT ![t] = [@ EXCEPT !.pc = "create_all"]]
       \/ tasks' = [tasks EXCEPT ![t] =
                      [@ EXCEPT !.pc = "except", !.exc = BeginError]]
    /\ UNCHANGED <<file, reset, ext, response, balance>>

\* init_db, line 151: await conn.run_sync(Base.metadata.create_all), and the
\* commit as the block is left
CreateAll(t) ==
    /\ tasks[t].op = "init_db"
    /\ tasks[t].pc = "create_all"
    /\ \/ tasks' = [tasks EXCEPT ![t] = [@ EXCEPT !.pc = "dispose"]]
       \/ tasks' = [tasks EXCEPT ![t] =
                      [@ EXCEPT !.pc = "except", !.exc = CreateAllError]]
    /\ UNCHANGED <<file, reset, ext, response, balance>>

\* init_db, lines 153-154: await engine.dispose(), info(...), return
InitDispose(t) ==
    /\ tasks[t].op = "init_db"
    /\ tasks[t].pc = "dispose"
    /\ \/ tasks' = [tasks EXCEPT ![t] =
                      [@ EXCEPT !.pc = "done", !.disposeCalls = @ + 1,
                                !.log = Logged(t, "info", "init_ok"),
                                !.outcome = "returned"]]
       \/ tasks' = [tasks EXCEPT ![t] =
                      [@ EXCEPT !.pc = "except", !.disposeCalls = @ + 1,
                                !.failed = @ \cup {"dispose"},
                                !.exc = DisposeError]]
    /\ UNCHANGED <<file, reset, ext, response, balance>>

\* init_db, lines 155-157: except Exception as e: error(...); raise
InitDbExcept(t) ==
    /\ tasks[t].op = "init_db"
    /\ tasks[t].pc = "except"
    /\ tasks' = [tasks EXCEPT ![t] =
                   [@ EXCEPT !.pc = "done",
                             !.log = Logged(t, "init_error", tasks[t].exc),
                             !.outcome = tasks[t].exc]]
    /\ UNCHANGED <<file, reset, ext, response, balance>>


(***************************************************************************)
(* reset_machine.py                                                        *)
(***************************************************************************)
\* pairs in the text of an initial configuration file
MaxPairs == 2

\* times the host application rewrites the file during one run
MaxExtWrites == 1

\* the keys of the dictionary generate_new_ids returns, in its order
TelemetryOrder ==
    <<"telemetry.devDeviceId", "telemetry.macMachineId",
      "telemetry.machineId", "telemetry.sqmId">>

TelemetryKeys == {TelemetryOrder[i] : i \in DOMAIN TelemetryOrder}

\* a key of the file the tool does not own, and the values it may hold
OtherKey == "a"
Vals == {"1", "2"}
ExtVal == "ext"

\* values uuid4 / sha256 / sha512 may produce
IdVals == {"id1", "id2"}

\* key/value pairs a configuration file may hold before the run
InitPairs == (TelemetryKeys \X {"old"}) \cup ({OtherKey} \X Vals)

Texts == UNION {[1..n -> InitPairs] : n \in 0..MaxPairs}

KeysOf(ps) == {ps[i][1] : i \in DOMAIN ps}

\* the value a JSON text gives a key: that of its last occurrence
ValueOf(ps, k) ==
    LET last == CHOOSE i \in DOMAIN ps :
                    /\ ps[i][1] = k
                    /\ \A j \in DOMAIN ps : ps[j][1] = k => j <= i
    IN  ps[last][2]

\* a Python dict: its keys in insertion order and the value of each key
EmptyDict == [keys |-> <<>>, val |-> [k \in {} |-> ""]]

\* json.load of an object text: a dict, its keys in the order of their first
\* occurrence, each with the value of its last occurrence
json_load(ps) ==
    LET first(i) == \A j \in 1..(i - 1) : ps[j][1] # ps[i][1]
        keep == SelectSeq([i \in DOMAIN ps |-> <<i, ps[i][1]>>],
                          LAMBDA x : first(x[1]))
    IN  [keys |-> [i \in DOMAIN keep |-> keep[i][2]],
         val  |-> [k \in KeysOf(ps) |-> ValueOf(ps, k)]]

\* json.dump of a dict: the text of its items, in the dict's order
json_dump(d) == [i \in DOMAIN d.keys |-> <<d.keys[i], d.val[d.keys[i]]>>]

\* generate_new_ids, lines 46-71: the four identifiers as a dict
generate_new_ids(dev, mac, machine, sqm) ==
    [keys |-> TelemetryOrder,
     val  |-> [k \in TelemetryKeys |->
                  CASE k = "telemetry.devDeviceId"  -> dev
                    [] k = "telemetry.macMachineId" -> mac
                    [] k = "telemetry.machineId"    -> machine
                    [] k = "telemetry.sqmId"        -> sqm]]

\* a plausible slip: the merge replaces the configuration by the new ids
dict_replace(d, new) == new

\* dict.update, line 108: a key of d keeps its place and takes the new value,
\* a key d lacks is appended
dict_update(d, new) ==
    [keys |-> d.keys \o SelectSeq(new.keys, LAMBDA k : k \notin DOMAIN d.val),
     val  |-> [k \in DOMAIN d.val \cup DOMAIN new.val |->
                  IF k \in DOMAIN new.val THEN new.val[k] ELSE d.val[k]]]

\* a plausible slip: the generic handler lets the exception go
ExceptClauseReraises(e) ==
    IF e = "PermissionError"
    THEN [result |-> "False", report |-> "permission"]
    ELSE [result |-> "raised", report |-> "none"]

\* lines 124-134: except PermissionError ... except Exception: print, return False
ExceptClause(e) ==
    IF e = "PermissionError"
    THEN [result |-> "False", report |-> "permission"]
    ELSE [result |-> "False", report |-> "error"]

\* the run leaves the try statement through a handler
Raise(e) ==
    [reset EXCEPT !.pc = "done", !.exc = e,
                  !.result = ExceptClause(e).result,
                  !.report = ExceptClause(e).report]

\* the run as it is called on file f, which it remembers for the properties
StartReset(f) ==
    [pc |-> "exists", before |-> f, config |-> [kind |-> "none", dict |-> EmptyDict],
     new_ids |-> EmptyDict, opened |-> {}, exc |-> NoExc,
     result |-> "pending", report |-> "none"]

\* lines 82-86: os.path.exists
CheckExists ==
    /\ reset.pc = "exists"
    /\ \/ /\ ~file.exists
          /\ reset' = [reset EXCEPT !.pc = "done", !.result = "False",
                                    !.report = "missing"]
       \/ /\ file.exists
          /\ reset' = [reset EXCEPT !.pc = "access"]
    /\ UNCHANGED <<tasks, file, ext, response, balance>>

\* a plausible slip: only read permission is checked
CheckAccessReadOnly ==
    /\ reset.pc = "access"
    /\ \/ /\ ~file.readable
          /\ reset' = [reset EXCEPT !.pc = "done", !.result = "False",
                                    !.report = "noaccess"]
       \/ /\ file.readable
          /\ reset' = [reset EXCEPT !.pc = "load"]
    /\ UNCHANGED <<tasks, file, ext, response, balance>>

\* lines 89-96: os.access(self.db_path, os.R_OK | os.W_OK)
CheckAccess ==
    /\ reset.pc = "access"
    /\ \/ /\ ~(file.readable /\ file.writable)
          /\ reset' = [reset EXCEPT !.pc = "done", !.result = "False",
                                    !.report = "noaccess"]
       \/ /\ file.readable /\ file.writable
          /\ reset' = [reset EXCEPT !.pc = "load"]
    /\ UNCHANGED <<tasks, file, ext, response, balance>>

\* lines 100-101: open(..., "r") and json.load.  open fails where the file is
\* missing or unreadable, and may fail although os.access allowed it
Load ==
    /\ reset.pc = "load"
    /\ \/ /\ ~file.exists
          /\ reset' = Raise("FileNotFoundError")
       \/ /\ file.exists
          /\ \E e \in {"PermissionError", "OSError"} :
                /\ e = "OSError" => file.readable
                /\ reset' = Raise(e)
       \/ /\ file.exists /\ file.readable
          /\ file.kind = "invalid"
          /\ reset' = [Raise("JSONDecodeError") EXCEPT !.opened = @ \cup {"r"}]
       \/ /\ file.exists /\ file.readable
          /\ file.kind = "array"
          /\ reset' = [reset EXCEPT !.pc = "merge", !.opened = @ \cup {"r"},
                                    !.config = [kind |-> "list", dict |-> EmptyDict]]
       \/ /\ file.exists /\ file.readable
          /\ file.kind = "object"
          /\ reset' = [reset EXCEPT !.pc = "merge", !.opened = @ \cup {"r"},
                                    !.config = [kind |-> "dict",
                                                dict |-> json_load(file.pairs)]]
    /\ UNCHANGED <<tasks, file, ext, response, balance>>

\* lines 105-108: new_ids = self.generate_new_ids(); config.update(new_ids).
\* A list has no update method
Merge ==
    /\ reset.pc = "merge"
    /\ \E dev \in IdVals, mac \in IdVals, machine \in IdVals, sqm \in IdVals :
          LET new == generate_new_ids(dev, mac, machine, sqm)
          IN  \/ /\ reset.config.kind = "dict"
                 /\ reset' = [reset EXCEPT !.pc = "open_w", !.new_ids = new,
                                  !.config.dict = dict_update(reset.config.dict, new)]
              \/ /\ reset.config.kind # "dict"
                 /\ reset' = [Raise("AttributeError") EXCEPT !.new_ids = new]
    /\ UNCHANGED <<tasks, file, ext, response, balance>>

\* a plausible slip that would hide the race: the file is read again and
\* merged as it is opened for writing
OpenWriteRereads ==
    /\ reset.pc = "open_w"
    /\ \/ /\ \E e \in {"PermissionError", "OSError"} :
                /\ e = "OSError" => file.writable
                /\ reset' = Raise(e)
          /\ UNCHANGED file
       \/ /\ file.writable
          /\ reset' = [reset EXCEPT !.pc = "dump", !.opened = @ \cup {"w"},
                          !.config.dict =
                              IF file.kind = "object"
                              THEN dict_update(json_load(file.pairs), reset.new_ids)
                              ELSE @]
          /\ file' = [file EXCEPT !.exists = TRUE, !.kind = "invalid",
                                  !.pairs = <<>>, !.heldOpen = TRUE,
                                  !.clobbered = FALSE]
    /\ UNCHANGED <<tasks, ext, response, balance>>

\* line 112: open(..., "w") truncates the file; it fails, the file untouched,
\* where the file is not writable, and may fail although os.access allowed it
OpenWrite ==
    /\ reset.pc = "open_w"
    /\ \/ /\ \E e \in {"PermissionError", "OSError"} :
                /\ e = "OSError" => file.writable
                /\ reset' = Raise(e)
          /\ UNCHANGED file
       \/ /\ file.writable
          /\ reset' = [reset EXCEPT !.pc = "dump", !.opened = @ \cup {"w"}]
          /\ file' = [file EXCEPT !.exists = TRUE, !.kind = "invalid",
                                  !.pairs = <<>>, !.heldOpen = TRUE,
                                  !.clobbered = FALSE]
    /\ UNCHANGED <<tasks, ext, response, balance>>

\* what the file holds once the run has written its text from offset 0: the
\* text, unless another writer put a longer text there meanwhile
Written(text) ==
    IF file.clobbered
    THEN {[file EXCEPT !.kind = k, !.pairs = text, !.heldOpen = FALSE,
                       !.clobbered = FALSE] : k \in {"object", "invalid"}}
    ELSE {[file EXCEPT !.kind = "object", !.pairs = text, !.heldOpen = FALSE]}

\* lines 113-122: json.dump(config, f, indent=4), close, report, return True;
\* a write that fails leaves a proper prefix of the text in the file
Dump ==
    /\ reset.pc = "dump"
    /\ LET text == json_dump(reset.config.dict)
       IN  \/ /\ file' \in Written(text)
              /\ reset' = [reset EXCEPT !.pc = "done", !.result = "True",
                                        !.report = "success"]
           \/ /\ \E n \in 0..(Len(text) - 1) :
                    file' = [file EXCEPT !.kind = "invalid",
                                         !.pairs = SubSeq(text, 1, n),
                                         !.heldOpen = FALSE, !.clobbered = FALSE]
              /\ reset' = Raise("OSError")
    /\ UNCHANGED <<tasks, ext, response, balance>>

\* the host application saves its own state to the same path; nothing the
\* tool does excludes it
ExtWrite ==
    /\ file.exists
    /\ ext.writes < MaxExtWrites
    /\ reset.pc # "done"
    /\ LET mem == dict_update(ext.mem, [keys |-> <<OtherKey>>,
                                       val |-> [k \in {OtherKey} |-> ExtVal]])
       IN  /\ ext' = [ext EXCEPT !.writes = @ + 1, !.mem = mem,
                                 !.at = @ \cup {reset.pc}]
           /\ file' = [file EXCEPT !.kind = "object", !.pairs = json_dump(mem),
                                   !.clobbered = file.heldOpen]
    /\ UNCHANGED <<tasks, reset, response, balance>>

(***************************************************************************)
(* tokenManager/cursor.py                                                  *)
(***************************************************************************)
\* largest request count in a response
MaxCount == 2

UsageKeys == {"maxRequestUsage", "numRequests", "numTokens"}

JsonNull == [t |-> "null"]
JsonObj(o) == [t |-> "obj", v |-> o]

None == [t |-> "None"]
IntVal(n) == [t |-> "int", n |-> n]

UsageObjects == UNION {[ks -> 0..MaxCount] : ks \in SUBSET UsageKeys}

\* bodies of the usage endpoint: per model name a usage object or null
Responses ==
    UNION {[ms -> {JsonNull} \cup {JsonObj(u) : u \in UsageObjects}] :
             ms \in SUBSET {"gpt-4"}}

\* dict.get(key, None)
dict_get(d, k) == IF k \in DOMAIN d THEN d[k] ELSE JsonNull

\* a plausible slip: the balance is clamped at zero
get_remaining_balance_clamped(resp) ==
    LET usage == dict_get(resp, "gpt-4")
    IN  IF \/ usage = JsonNull
           \/ "maxRequestUsage" \notin DOMAIN usage.v
           \/ "numRequests" \notin DOMAIN usage.v
        THEN None
        ELSE IF usage.v["maxRequestUsage"] < usage.v["numRequests"]
             THEN IntVal(0)
             ELSE IntVal(usage.v["maxRequestUsage"] - usage.v["numRequests"])

\* lines 59-70
get_remaining_balance(resp) ==
    LET usage == dict_get(resp, "gpt-4")
    IN  IF \/ usage = JsonNull
           \/ "maxRequestUsage" \notin DOMAIN usage.v
           \/ "numRequests" \notin DOMAIN usage.v
        THEN None
        ELSE IntVal(usage.v["maxRequestUsage"] - usage.v["numRequests"])

\* lines 56-70: the GET, then the result computed from its body
GetRemainingBalance ==
    /\ balance.pc = "idle"
    /\ balance' = [pc |-> "done", result |-> get_remaining_balance(response)]
    /\ UNCHANGED <<tasks, file, reset, ext, response>>


(***************************************************************************)
(* Specifications                                                          *)
(***************************************************************************)
NoFile ==
    [exists |-> FALSE, readable |-> FALSE, writable |-> FALSE,
     kind |-> "invalid", pairs |-> <<>>, heldOpen |-> FALSE, clobbered |-> FALSE]

\* the configuration file before a run: missing, or present with its
\* permissions and a text that is a JSON object, another JSON value or no JSON
Files ==
    {NoFile} \cup
    {[exists |-> TRUE, readable |-> r, writable |-> w, kind |-> c[1],
      pairs |-> c[2], heldOpen |-> FALSE, clobbered |-> FALSE] :
        r \in BOOLEAN, w \in BOOLEAN,
        c \in ({"object"} \X Texts) \cup {<<"array", <<>>>>, <<"invalid", <<>>>>}}

NoReset == [StartReset(NoFile) EXCEPT !.pc = "off"]
NoExt == [writes |-> 0, at |-> {}, mem |-> EmptyDict]
NoBalance == [pc |-> "off", result |-> None]

\* the persistence layer: coroutines calling get_session and init_db
InitDb ==
    /\ tasks = [t \in Tasks |-> IdleTask]
    /\ file = NoFile
    /\ reset = NoReset
    /\ ext = NoExt
    /\ response = <<>>
    /\ balance = NoBalance

NextDb ==
    \E t \in Tasks :
        \/ CallGetSession(t)
        \/ SelectOne(t)
        \/ Body(t)
        \/ ExceptHandler(t)
        \/ CloseSession(t)
        \/ DisposeEngine(t)
        \/ CallInitDb(t)
        \/ Begin(t)
        \/ CreateAll(t)
        \/ InitDispose(t)
        \/ InitDbExcept(t)

SpecDb == InitDb /\ [][NextDb]_vars

\* the identity rewriter, run once on some configuration file
InitReset ==
    /\ tasks = <<>>
    /\ file \in Files
    /\ reset = StartReset(file)
    /\ ext = [NoExt EXCEPT !.mem = IF file.kind = "object"
                                   THEN json_load(file.pairs) ELSE EmptyDict]
    /\ response = <<>>
    /\ balance = NoBalance

NextReset ==
    \/ CheckExists
    \/ CheckAccess
    \/ Load
    \/ Merge
    \/ OpenWrite
    \/ Dump

SpecReset == InitReset /\ [][NextReset]_vars

\* the identity rewriter with the host application writing the same file
NextRace ==
    \/ NextReset
    \/ ExtWrite

SpecRace == InitReset /\ [][NextRace]_vars

\* the usage client, called once on some response
InitBalance ==
    /\ tasks = <<>>
    /\ file = NoFile
    /\ reset = NoReset
    /\ ext = NoExt
    /\ response \in Responses
    /\ balance = [pc |-> "idle", result |-> None]

NextBalance == GetRemainingBalance

SpecBalance == InitBalance /\ [][NextBalance]_vars

(***************************************************************************)
(* Properties                                                              *)
(***************************************************************************)
InLog(t, kind, e) == \E i \in DOMAIN tasks[t].log : tasks[t].log[i] = <<kind, e>>

\* get_session has exited, its engine and session having been constructed
SessionDone(t) ==
    /\ tasks[t].op = "get_session"
    /\ tasks[t].pc = "done"
    /\ tasks[t].engine
    /\ tasks[t].session

\* C1: every get_session that constructed its engine and session has attempted
\* session.close() and engine.dispose() by the time it exits, whether the body
\* completed, the body raised, or SELECT 1 raised before the yield.
C1_CloseAndDisposeOnEveryExit ==
    \A t \in Tasks :
        SessionDone(t) => tasks[t].closeCalls >= 1 /\ tasks[t].disposeCalls >= 1

\* C1 witness: an exit where SELECT 1 raised before the session was yielded
C1_Witness ==
    \E t \in Tasks :
        /\ SessionDone(t)
        /\ ~tasks[t].yielded
        /\ tasks[t].outcome = SelectError
        /\ tasks[t].closeCalls = 1
        /\ tasks[t].disposeCalls = 1

\* C2: when SELECT 1 or the body raises E, the error is logged, rollback is
\* attempted exactly once and the caller receives E itself, a rollback failure
\* being logged and never replacing E; when the body completes, rollback is
\* never called.
C2_RollbackOnceAndOriginalRaised ==
    \A t \in Tasks :
        SessionDone(t) =>
            /\ tasks[t].outcome \in {"returned", SelectError, BodyError}
            /\ tasks[t].outcome = "returned" =>
                   /\ tasks[t].yielded
                   /\ tasks[t].rollbackCalls = 0
                   /\ ~InLog(t, "session_error", SelectError)
                   /\ ~InLog(t, "session_error", BodyError)
            /\ tasks[t].outcome = SelectError => ~tasks[t].yielded
            /\ tasks[t].outcome = BodyError => tasks[t].yielded
            /\ tasks[t].outcome # "returned" =>
                   /\ tasks[t].rollbackCalls = 1
                   /\ InLog(t, "session_error", tasks[t].outcome)
                   /\ "rollback" \in tasks[t].failed
                          => InLog(t, "rollback_error", RollbackError)
            /\ ~tasks[t].yielded => tasks[t].outcome = SelectError

\* C2 witness: the body raised, the rollback failed too, the caller got the
\* body's exception
C2_Witness ==
    \E t \in Tasks :
        /\ SessionDone(t)
        /\ tasks[t].yielded
        /\ "rollback" \in tasks[t].failed
        /\ tasks[t].rollbackCalls = 1
        /\ tasks[t].outcome = BodyError

\* C3: a failure of close() does not stop dispose() from being attempted; a
\* failure of close() or dispose() is logged and never reaches the caller, whose
\* outcome is what the try block decided.
C3_CleanupFailuresSwallowed ==
    \A t \in Tasks :
        SessionDone(t) =>
            /\ "close" \in tasks[t].failed =>
                   /\ tasks[t].disposeCalls = 1
                   /\ InLog(t, "close_error", CloseError)
            /\ "dispose" \in tasks[t].failed => InLog(t, "dispose_error", DisposeError)
            /\ tasks[t].outcome \notin {CloseError, DisposeError}
            /\ tasks[t].outcome =
                   IF tasks[t].rollbackCalls = 0 THEN "returned"
                   ELSE IF tasks[t].yielded THEN BodyError ELSE SelectError

\* C3 witness: close and dispose both failed after a body that completed, and
\* the caller left the block normally
C3_Witness ==
    \E t \in Tasks :
        /\ SessionDone(t)
        /\ {"close", "dispose"} \subseteq tasks[t].failed
        /\ tasks[t].disposeCalls = 1
        /\ tasks[t].outcome = "returned"

\* C9 as stated: every engine init_db created has been disposed when init_db
\* exits, on success and on failure alike.
C9_InitDbDisposesOnEveryExit ==
    \A t \in Tasks :
        (tasks[t].op = "init_db" /\ tasks[t].pc = "done" /\ tasks[t].engine)
            => tasks[t].disposeCalls >= 1

ResetDone == reset.pc = "done"

\* what the file holds, apart from permissions and open handles
Content(f) == <<f.exists, f.kind, f.pairs>>

\* C4: after a successful reset of a file holding a JSON object, the object
\* written has the original keys plus the four telemetry keys, every other key
\* with its original value and each telemetry key with its new value.
C4_MergePreservesOtherKeys ==
    (ResetDone /\ reset.result = "True") =>
        /\ reset.before.kind = "object"
        /\ file.kind = "object"
        /\ KeysOf(file.pairs) = KeysOf(reset.before.pairs) \cup TelemetryKeys
        /\ Len(file.pairs) = Cardinality(KeysOf(file.pairs))
        /\ \A k \in KeysOf(reset.before.pairs) \ TelemetryKeys :
               ValueOf(file.pairs, k) = ValueOf(reset.before.pairs, k)
        /\ DOMAIN reset.new_ids.val = TelemetryKeys
        /\ \A k \in TelemetryKeys :
               ValueOf(file.pairs, k) = reset.new_ids.val[k]

\* C4 witness: the file held {"a": ..., "telemetry.machineId": "old"} and the
\* reset succeeded
C4_Witness ==
    /\ ResetDone
    /\ reset.result = "True"
    /\ KeysOf(reset.before.pairs) = {OtherKey, "telemetry.machineId"}
    /\ ValueOf(file.pairs, "telemetry.machineId") # "old"

\* C5: on a file that is missing, or not both readable and writable, the reset
\* returns False without opening the file, generating identifiers or writing.
C5_NoAccessNoOpen ==
    (ResetDone /\ ~(reset.before.exists /\ reset.before.readable
                                         /\ reset.before.writable)) =>
        /\ reset.result = "False"
        /\ reset.opened = {}
        /\ reset.new_ids = EmptyDict
        /\ file = reset.before

\* C5 witness: the file exists and is readable but not writable
C5_Witness ==
    /\ ResetDone
    /\ reset.before.exists
    /\ reset.before.readable
    /\ ~reset.before.writable
    /\ reset.report = "noaccess"

\* C6: every run ends by returning a boolean; True exactly when the file was
\* loaded, merged and written back without error, False for a missing file,
\* insufficient permission, a PermissionError or any other exception.
C6_AlwaysReturnsBoolean ==
    ResetDone =>
        /\ reset.result \in {"True", "False"}
        /\ reset.result = "True" <=>
               /\ reset.exc = NoExc
               /\ reset.opened = {"r", "w"}
               /\ reset.config.kind = "dict"
               /\ DOMAIN reset.new_ids.val = TelemetryKeys
               /\ TelemetryKeys \subseteq DOMAIN reset.config.dict.val
               /\ file.kind = "object"
               /\ file.pairs = json_dump(reset.config.dict)
        /\ reset.result = "False" =>
               \/ reset.report = "missing" /\ ~reset.before.exists
               \/ reset.report = "noaccess" /\ reset.before.exists
               \/ reset.report = "permission" /\ reset.exc = "PermissionError"
               \/ /\ reset.report = "error"
                  /\ reset.exc \in {"OSError", "JSONDecodeError", "AttributeError"}

\* C6 witness: the write failed after the file was opened for writing
C6_Witness ==
    /\ ResetDone
    /\ reset.result = "False"
    /\ reset.exc = "OSError"
    /\ "w" \in reset.opened

\* C10 as stated: whenever the reset returns False the file's content is what it
\* was before the call.
C10_FailureLeavesFileUnchanged ==
    (ResetDone /\ reset.result = "False") => Content(file) = Content(reset.before)

\* the host application wrote after the run read the file and before the run
\* opened it for writing, and at no other time
WroteBetween == ext.at # {} /\ ext.at \subseteq {"merge", "open_w"}

\* C8: when the host application changes the file between the run's read and
\* its write-back, a successful write-back leaves the earlier-read content merged
\* with the new identifiers, and the host's change is gone.
C8_WriteBackOverwritesExternalChange ==
    (ResetDone /\ reset.result = "True" /\ WroteBetween) =>
        /\ file.kind = "object"
        /\ file.pairs =
               json_dump(dict_update(json_load(reset.before.pairs), reset.new_ids))
        /\ \A i \in DOMAIN file.pairs : file.pairs[i] # <<OtherKey, ExtVal>>

\* C8 witness: the lost update
C8_Witness ==
    /\ ResetDone
    /\ reset.result = "True"
    /\ WroteBetween
    /\ ext.mem.val[OtherKey] = ExtVal
    /\ OtherKey \in KeysOf(reset.before.pairs)
    /\ ValueOf(file.pairs, OtherKey) = ValueOf(reset.before.pairs, OtherKey)

\* C7: the result is None when the response has no gpt-4 usage object or that
\* object lacks maxRequestUsage or numRequests, and otherwise exactly
\* maxRequestUsage - numRequests, unclamped.
C7_BalanceIsDifferenceOrNone ==
    balance.pc = "done" =>
        IF /\ "gpt-4" \in DOMAIN response
           /\ response["gpt-4"].t = "obj"
           /\ {"maxRequestUsage", "numRequests"} \subseteq DOMAIN response["gpt-4"].v
        THEN /\ balance.result.t = "int"
             /\ balance.result.n + response["gpt-4"].v["numRequests"]
                    = response["gpt-4"].v["maxRequestUsage"]
        ELSE balance.result.t = "None"

\* C7 witness: numRequests exceeds maxRequestUsage and the result is negative
C7_Witness ==
    /\ balance.pc = "done"
    /\ balance.result.t = "int"
    /\ balance.result.n < 0

====
